---- MODULE Spec2Model ----
(***************************************************************************)
(* PrivacyAuditSystem (src/privacyAudit.ts): the bounded audit recorder,   *)
(* its query and statistics operations and its asynchronous export.        *)
(*                                                                         *)
(* JavaScript runs one callback at a time, so every action below is one    *)
(* synchronous run of the code: a public call up to its return or its      *)
(* first await, or the continuation of exportAuditLog after its sleep.     *)
(*                                                                         *)
(* An entry keeps the fields the code reads back (type, meta, status,      *)
(* riskLevel, sessionId, timestamp) and its message as a tag.  The fields  *)
(* id, integrityHash and durationMs are random decorations that no         *)
(* operation reads; they are left out.  meta is kept as the two keys       *)
(* calculateRiskLevel looks at.  appended and lastCall are history         *)
(* variables: the entries pushed so far, and the step just taken with the  *)
(* log it started from and the value it returned.                          *)
(***************************************************************************)
EXTENDS Integers, Sequences, FiniteSets, TLC

\* ---------------------------------------------------------------- bounds
\* AUDIT_CONFIG.maxEntries is 10000 in the source; the model runs every
\* configured size from 1 to MaxEntries (and ExportEvery in SpecAuto).
MaxEntries == 3

\* Spec accepts public calls while fewer than MaxAppends entries were appended.
MaxAppends == 5

\* The same cap for SpecStats and for SpecRisk, whose inputs are wider.
StatsAppends == 3

RiskAppends == 2

\* The same cap for SpecAuto, whose log holds ExportEvery entries.
AutoAppends == 11

\* getAuditTrail is called with no limit or with a limit in 0..MaxLimit.
MaxLimit == 3

\* now() takes the values 0..MaxClock.
MaxClock == 1

\* The random statuses held ready for one synchronous run, one for each
\* entry it may build.
MaxDraws == 3

\* SpecSync starts the body of initialize at most MaxInitCalls times and
\* accepts at most MaxCycleCalls calls of syncCycle.
MaxInitCalls == 2

MaxCycleCalls == 3

\* ------------------------------------------------------ program constants
\* recordEvent: this.auditLog.length % 10 === 0
ExportEvery == 10

\* AUDIT_CONFIG.autoExport
AUDIT_CONFIG_autoExport == TRUE

\* The enumeration of AuditEntry.type, and a value outside it (the type is
\* erased at run time, so a caller can pass any string).
Categories == {"proof", "inference", "verification", "system"}

UnknownCategory == "unknown"

\* recordEvent: randomElement(['Verified', 'Recorded', 'Pending'])
RandomStatuses == {"Verified", "Recorded", "Pending"}

\* generateSessionId(): a random string
SessionIds == {"SESS-A"}

\* Two recorders differ by their session id.
TwoSessionIds == {"SESS-A", "SESS-B"}

\* meta?: Record<string, string>, seen through the keys the code reads.
\* "absent" stands for a key the object does not have.
MetaValues == {"high", "low", "absent"}

NoMeta == [present |-> FALSE, sensitivity |-> "absent", complexity |-> "absent"]

Meta(s, c) == [present |-> TRUE, sensitivity |-> s, complexity |-> c]

\* The meta objects the class itself passes: none has either key.
InternalMeta == Meta("absent", "absent")

AllMetas == {NoMeta} \cup {Meta(s, c) : s \in MetaValues, c \in MetaValues}

\* limit?: number
NoLimit == [given |-> FALSE, value |-> 0]

Limit(k) == [given |-> TRUE, value |-> k]

Limits == {NoLimit} \cup {Limit(k) : k \in 0..MaxLimit}

\* string | null
Null == <<>>

Some(x) == <<x>>

VARIABLES
    auditLog,      \* private auditLog: AuditEntry[]
    isExporting,   \* private isExporting: boolean
    sessionId,     \* private sessionId: string
    maxEntries,    \* AUDIT_CONFIG.maxEntries
    clock,         \* what now() returns
    sleeping,      \* exportAuditLog runs suspended at `await sleep(...)`
    appended,      \* history: every entry pushed so far, in push order
    lastCall,      \* the step just taken and what it returned
    \* CipherSyncEngine (src/unnamed/part_000)
    engineStatus,    \* private status: SystemStatus
    isInitialized,   \* private isInitialized: boolean
    cyclesCompleted, \* private cyclesCompleted: number
    metrics,         \* private metrics: SyncMetrics[]
    initRuns,        \* initialize() calls suspended in their body
    cycleInits,      \* syncCycle() calls awaiting the initialize() they made
    cycleRuns,       \* syncCycle() calls suspended in their phases
    resets,          \* history: how often initialize's body replaced status
    engineCall       \* the engine step just taken and what it returned

auditVars == <<auditLog, isExporting, sessionId, maxEntries, clock, sleeping, appended, lastCall>>

engineVars == <<engineStatus, isInitialized, cyclesCompleted, metrics,
                initRuns, cycleInits, cycleRuns, resets, engineCall>>

vars == <<auditVars, engineVars>>

\* ------------------------------------------------------------- helpers
Min(a, b) == IF a < b THEN a ELSE b

Max(a, b) == IF a > b THEN a ELSE b

\* Array.prototype.slice(start): a negative start counts from the end and is
\* clamped at 0, a start past the end gives the empty array.
Slice(arr, start) ==
    LET n == Len(arr)
        k == IF start < 0 THEN Max(n + start, 0) ELSE Min(start, n)
    IN  SubSeq(arr, k + 1, n)

\* Mutant of calculateRiskLevel: the two metadata keys exchanged.
calculateRiskLevel_SwappedKeys(type, meta) ==
    IF type = "system" THEN "LOW"
    ELSE IF type = "verification" THEN "MEDIUM"
    ELSE IF type = "inference"
         THEN IF meta.present /\ meta.complexity = "high" THEN "HIGH" ELSE "MEDIUM"
    ELSE IF type = "proof"
         THEN IF meta.present /\ meta.sensitivity = "high" THEN "HIGH" ELSE "MEDIUM"
    ELSE "LOW"

calculateRiskLevel(type, meta) ==
    IF type = "system" THEN "LOW"
    ELSE IF type = "verification" THEN "MEDIUM"
    ELSE IF type = "inference"
         THEN IF meta.present /\ meta.sensitivity = "high" THEN "HIGH" ELSE "MEDIUM"
    ELSE IF type = "proof"
         THEN IF meta.present /\ meta.complexity = "high" THEN "HIGH" ELSE "MEDIUM"
    ELSE "LOW"

\* Mutant of NewEntry: a session id is generated for each entry.
NewEntry_FreshSession(type, message, meta, status) ==
    [type      |-> type,
     message   |-> message,
     meta      |-> meta,
     status    |-> status,
     sessionId |-> CHOOSE s \in TwoSessionIds : s # sessionId,
     timestamp |-> clock,
     riskLevel |-> calculateRiskLevel(type, meta)]

\* The entry recordEvent builds (lines 165-176).
NewEntry(type, message, meta, status) ==
    [type      |-> type,
     message   |-> message,
     meta      |-> meta,
     status    |-> status,
     sessionId |-> sessionId,
     timestamp |-> clock,
     riskLevel |-> calculateRiskLevel(type, meta)]

\* Mutants of Retention: the bound tested one too high; the head kept
\* instead of the tail.
Retention_OffByOne(log) ==
    IF Len(log) > maxEntries + 1 THEN Slice(log, -maxEntries) ELSE log

Retention_KeepOldest(log) ==
    IF Len(log) > maxEntries THEN SubSeq(log, 1, maxEntries) ELSE log

\* Mutant of Retention: the log is started afresh when it overflows.
Retention_Rotate(log) ==
    IF Len(log) > maxEntries THEN <<>> ELSE log

\* Apply retention policy (lines 181-183).
Retention(log) ==
    IF Len(log) > maxEntries THEN Slice(log, -maxEntries) ELSE log

\* One synchronous run works on a context: the fields it may change, the
\* random statuses it will draw (rnd) and how often it called autoExport.
Context(rnd) ==
    [log       |-> auditLog,
     exporting |-> isExporting,
     sleeping  |-> sleeping,
     hist      |-> appended,
     rnd       |-> rnd,
     autoCalls |-> 0]

RECURSIVE recordEvent(_, _, _, _)
RECURSIVE exportAuditLog(_)

\* private async autoExport(): runs exportAuditLog up to its first await.
autoExport(c) ==
    IF ~AUDIT_CONFIG_autoExport THEN c
    ELSE exportAuditLog([c EXCEPT !.autoCalls = @ + 1])

\* Mutant of recordEvent: the retention slice runs before the push, so the
\* log is left one entry over the bound until the next call.
recordEvent_EvictBeforePush(c, type, message, meta) ==
    LET entry == NewEntry(type, message, meta, Head(c.rnd))
        c1 == [c EXCEPT !.log = Append(Retention(@), entry),
                        !.hist = Append(@, entry),
                        !.rnd = Tail(@)]
    IN  IF AUDIT_CONFIG_autoExport /\ Len(c1.log) % ExportEvery = 0
        THEN autoExport(c1)
        ELSE c1

\* public recordEvent(type, message, meta)
recordEvent(c, type, message, meta) ==
    LET entry == NewEntry(type, message, meta, Head(c.rnd))
        c1 == [c EXCEPT !.log = Retention(Append(@, entry)),
                        !.hist = Append(@, entry),
                        !.rnd = Tail(@)]
    IN  IF AUDIT_CONFIG_autoExport /\ Len(c1.log) % ExportEvery = 0
        THEN autoExport(c1)
        ELSE c1

\* Mutant of exportAuditLog: the guard lets the second nested attempt of a
\* run through.
exportAuditLog_ReentersOnce(c) ==
    IF c.exporting /\ c.autoCalls # 2 THEN c
    ELSE LET c1 == recordEvent([c EXCEPT !.exporting = TRUE],
                               "system", "export-start", InternalMeta)
         IN  [c1 EXCEPT !.sleeping = @ + 1]

\* Mutant of exportAuditLog: the test of isExporting sits inside the try
\* block, so the early return runs the finally block and clears the flag.
exportAuditLog_GuardInsideTry(c) ==
    IF c.exporting THEN [c EXCEPT !.exporting = FALSE]
    ELSE LET c1 == recordEvent([c EXCEPT !.exporting = TRUE],
                               "system", "export-start", InternalMeta)
         IN  [c1 EXCEPT !.sleeping = @ + 1]

\* public async exportAuditLog(): the part before `await sleep` (233-248).
exportAuditLog(c) ==
    IF c.exporting THEN c
    ELSE LET c1 == recordEvent([c EXCEPT !.exporting = TRUE],
                               "system", "export-start", InternalMeta)
         IN  [c1 EXCEPT !.sleeping = @ + 1]

\* Mutant of exportResume: the log is emptied once it has been written.
exportResume_Flush(c, ok) ==
    LET c0 == IF ok THEN [c EXCEPT !.log = <<>>] ELSE c
        c1 == IF ok
              THEN recordEvent(c0, "system", "export-ok", InternalMeta)
              ELSE recordEvent(c0, "system", "export-failed", InternalMeta)
    IN  [c1 EXCEPT !.exporting = FALSE, !.sleeping = @ - 1]

\* Mutant of exportResume: a failed write rolls the log back to the entries
\* it held when the export started.
exportResume_RollBack(c, ok) ==
    LET starts == {i \in DOMAIN c.log : c.log[i].message = "export-start"}
        c0 == IF ok \/ starts = {} THEN c
              ELSE [c EXCEPT !.log = SubSeq(@, 1, CHOOSE i \in starts : \A j \in starts : j <= i)]
        c1 == IF ok
              THEN recordEvent(c0, "system", "export-ok", InternalMeta)
              ELSE recordEvent(c0, "system", "export-failed", InternalMeta)
    IN  [c1 EXCEPT !.exporting = FALSE, !.sleeping = @ - 1]

\* Mutant of exportResume: a successful export marks the entries it wrote
\* with the status 'Exported'.
exportResume_MarkExported(c, ok) ==
    LET c0 == IF ok
              THEN [c EXCEPT !.log = [i \in DOMAIN @ |-> [@[i] EXCEPT !.status = "Exported"]]]
              ELSE c
        c1 == IF ok
              THEN recordEvent(c0, "system", "export-ok", InternalMeta)
              ELSE recordEvent(c0, "system", "export-failed", InternalMeta)
    IN  [c1 EXCEPT !.exporting = FALSE, !.sleeping = @ - 1]

\* Mutant of exportResume: isExporting is cleared at the end of the try block
\* and not in a finally block, so a failed write leaves it set.
exportResume_NoFinally(c, ok) ==
    LET c1 == IF ok
              THEN recordEvent(c, "system", "export-ok", InternalMeta)
              ELSE recordEvent(c, "system", "export-failed", InternalMeta)
    IN  [c1 EXCEPT !.exporting = ~ok, !.sleeping = @ - 1]

\* exportAuditLog after the sleep (250-292): the write succeeds or throws,
\* the outcome is recorded, and finally the flag is cleared.
exportResume(c, ok) ==
    LET c1 == IF ok
              THEN recordEvent(c, "system", "export-ok", InternalMeta)
              ELSE recordEvent(c, "system", "export-failed", InternalMeta)
    IN  [c1 EXCEPT !.exporting = FALSE, !.sleeping = @ - 1]

\* Mutant of exportData: totalRecords is the count taken when the export
\* started, before the sleep, not the length of the array that is written.
exportData_CountAtStart(log) ==
    LET starts == {i \in DOMAIN log : log[i].message = "export-start"}
    IN  [totalRecords |-> IF starts = {} THEN 0
                          ELSE CHOOSE i \in starts : \A j \in starts : j <= i,
         auditTrail   |-> log]

\* What exportAuditLog serialises at line 271.
exportData(log) ==
    [totalRecords |-> Len(log), auditTrail |-> log]

\* getAuditTrail line 220: limit ? this.auditLog.slice(-limit) : [...this.auditLog]
Truthy(limit) == limit.given /\ limit.value # 0

\* Mutant of queryRecords: slice(limit) for slice(-limit).
queryRecords_FromStart(log, limit) ==
    IF Truthy(limit) THEN Slice(log, limit.value) ELSE log

queryRecords(log, limit) ==
    IF Truthy(limit) THEN Slice(log, -limit.value) ELSE log

\* Mutant of Bump: the count is set, not incremented.
Bump_Overwrite(m, k) ==
    IF k \in DOMAIN m THEN [m EXCEPT ![k] = 1] ELSE m @@ (k :> 1)

\* getStats (295-312): stats.byX[k] = (stats.byX[k] || 0) + 1
Bump(m, k) ==
    IF k \in DOMAIN m THEN [m EXCEPT ![k] = @ + 1] ELSE m @@ (k :> 1)

RECURSIVE forEachTally(_, _, _)
forEachTally(log, i, st) ==
    IF i > Len(log) THEN st
    ELSE forEachTally(log, i + 1,
            [st EXCEPT !.byType = Bump(@, log[i].type),
                       !.byStatus = Bump(@, log[i].status),
                       !.byRiskLevel = Bump(@, log[i].riskLevel)])

\* Mutant of getStats: firstRecord and lastRecord without the `|| null`
\* fallback, undefined when the log has no entry.
getStats_NoNullFallback(log) ==
    forEachTally(log, 1,
        [totalRecords |-> Len(log),
         byType       |-> <<>>,
         byStatus     |-> <<>>,
         byRiskLevel  |-> <<>>,
         firstRecord  |-> IF Len(log) >= 1 THEN Some(log[1].timestamp) ELSE Some("undefined"),
         lastRecord   |-> IF Len(log) >= 1 THEN Some(log[Len(log)].timestamp) ELSE Some("undefined")])

\* Mutant of getStats: the loop starts at the second entry.
getStats_SkipFirst(log) ==
    forEachTally(log, 2,
        [totalRecords |-> Len(log),
         byType       |-> <<>>,
         byStatus     |-> <<>>,
         byRiskLevel  |-> <<>>,
         firstRecord  |-> IF Len(log) >= 1 THEN Some(log[1].timestamp) ELSE Null,
         lastRecord   |-> IF Len(log) >= 1 THEN Some(log[Len(log)].timestamp) ELSE Null])

getStats(log) ==
    forEachTally(log, 1,
        [totalRecords |-> Len(log),
         byType       |-> <<>>,
         byStatus     |-> <<>>,
         byRiskLevel  |-> <<>>,
         firstRecord  |-> IF Len(log) >= 1 THEN Some(log[1].timestamp) ELSE Null,
         lastRecord   |-> IF Len(log) >= 1 THEN Some(log[Len(log)].timestamp) ELSE Null])

\* ------------------------------------------------------------- actions
NoCall ==
    [op |-> "new", type |-> "system", meta |-> InternalMeta, limit |-> NoLimit,
     records |-> <<>>, stats |-> getStats(<<>>), file |-> <<>>,
     before |-> <<>>, autoCalls |-> 0]

Commit(c) ==
    /\ auditLog' = c.log
    /\ isExporting' = c.exporting
    /\ sleeping' = c.sleeping
    /\ appended' = c.hist

\* constructor (147-153): the fields' initialisers, then the bootstrap event.
\* sizes: the configured maxEntries; statuses: what randomElement may draw.
\* Mutant of ConstructWith: the constructor starts an export once the
\* bootstrap event is recorded.
ConstructWith_ExportAtStartup(ids, sizes, statuses) ==
    /\ sessionId \in ids
    /\ maxEntries \in sizes
    /\ clock = 0
    /\ \E st \in statuses :
          LET c == exportAuditLog(recordEvent(
                      [log |-> <<>>, exporting |-> FALSE, sleeping |-> 0,
                       hist |-> <<>>, rnd |-> <<st, st>>, autoCalls |-> 0],
                      "system", "initialized", InternalMeta))
          IN  /\ auditLog = c.log
              /\ isExporting = c.exporting
              /\ sleeping = c.sleeping
              /\ appended = c.hist
    /\ lastCall = NoCall

\* ids: what generateSessionId may return.
ConstructWith(ids, sizes, statuses) ==
    /\ sessionId \in ids
    /\ maxEntries \in sizes
    /\ clock = 0
    /\ \E st \in statuses :
          LET c == recordEvent(
                      [log |-> <<>>, exporting |-> FALSE, sleeping |-> 0,
                       hist |-> <<>>, rnd |-> <<st>>, autoCalls |-> 0],
                      "system", "initialized", InternalMeta)
          IN  /\ auditLog = c.log
              /\ isExporting = c.exporting
              /\ sleeping = c.sleeping
              /\ appended = c.hist
    /\ lastCall = NoCall

Construct(sizes, statuses) == ConstructWith(SessionIds, sizes, statuses)

\* A caller calls recordEvent(type, message, meta).
RecordEventCall(cap, type, meta, rnd) ==
    /\ Len(appended) < cap
    /\ LET c == recordEvent(Context(rnd), type, "event", meta)
       IN  /\ Commit(c)
           /\ lastCall' = [NoCall EXCEPT !.op = "recordEvent", !.type = type,
                                         !.meta = meta, !.before = auditLog,
                                         !.autoCalls = c.autoCalls]
    /\ UNCHANGED <<sessionId, maxEntries, clock>>
    /\ UNCHANGED engineVars

\* Mutant of GetAuditTrailCall: splice(-limit) for slice(-limit), which takes
\* the returned records out of the log.
GetAuditTrailCall_Splice(cap, limit, rnd) ==
    /\ Len(appended) < cap
    /\ LET records == queryRecords(auditLog, limit)
           rest == IF Truthy(limit)
                   THEN SubSeq(auditLog, 1, Len(auditLog) - Len(records))
                   ELSE auditLog
           c == recordEvent([Context(rnd) EXCEPT !.log = rest],
                            "system", "queried", InternalMeta)
       IN  /\ Commit(c)
           /\ lastCall' = [NoCall EXCEPT !.op = "getAuditTrail", !.limit = limit,
                                         !.records = records, !.before = auditLog,
                                         !.autoCalls = c.autoCalls]
    /\ UNCHANGED <<sessionId, maxEntries, clock>>
    /\ UNCHANGED engineVars

\* public getAuditTrail(limit?) (219-231)
GetAuditTrailCall(cap, limit, rnd) ==
    /\ Len(appended) < cap
    /\ LET records == queryRecords(auditLog, limit)
           c == recordEvent(Context(rnd), "system", "queried", InternalMeta)
       IN  /\ Commit(c)
           /\ lastCall' = [NoCall EXCEPT !.op = "getAuditTrail", !.limit = limit,
                                         !.records = records, !.before = auditLog,
                                         !.autoCalls = c.autoCalls]
    /\ UNCHANGED <<sessionId, maxEntries, clock>>
    /\ UNCHANGED engineVars

\* public getStats()
GetStatsCall ==
    /\ lastCall' = [NoCall EXCEPT !.op = "getStats", !.stats = getStats(auditLog),
                                  !.before = auditLog]
    /\ UNCHANGED <<auditLog, isExporting, sessionId, maxEntries, clock, sleeping, appended>>
    /\ UNCHANGED engineVars

\* getStats as a function of the array it reads, applied to log.
GetStatsOf(log) ==
    /\ lastCall' = [NoCall EXCEPT !.op = "getStatsOf", !.stats = getStats(log),
                                  !.before = log]
    /\ UNCHANGED <<auditLog, isExporting, sessionId, maxEntries, clock, sleeping, appended>>
    /\ UNCHANGED engineVars

\* public exportAuditLog(filePath?), up to `await sleep`, or its early return
\* when an export is in progress.
ExportAuditLogCall(cap, rnd) ==
    /\ Len(appended) < cap
    /\ LET c == exportAuditLog(Context(rnd))
       IN  /\ Commit(c)
           /\ lastCall' = [NoCall EXCEPT !.op = "exportAuditLog", !.before = auditLog,
                                         !.autoCalls = c.autoCalls]
    /\ UNCHANGED <<sessionId, maxEntries, clock>>
    /\ UNCHANGED engineVars

\* The timer of a suspended exportAuditLog fires: lines 250-292.
ExportResume(ok, rnd) ==
    /\ sleeping > 0
    /\ LET c == exportResume(Context(rnd), ok)
       IN  /\ Commit(c)
           /\ lastCall' = [NoCall EXCEPT !.op = IF ok THEN "exported" ELSE "exportFailed",
                                         !.file = IF ok THEN <<exportData(auditLog)>> ELSE <<>>,
                                         !.before = auditLog,
                                         !.autoCalls = c.autoCalls]
    /\ UNCHANGED <<sessionId, maxEntries, clock>>
    /\ UNCHANGED engineVars

\* Time passes between two calls.
Tick ==
    /\ clock < MaxClock
    /\ clock' = clock + 1
    /\ lastCall' = [NoCall EXCEPT !.op = "tick"]
    /\ UNCHANGED <<auditLog, isExporting, sessionId, maxEntries, sleeping, appended>>
    /\ UNCHANGED engineVars

\* ------------------------------------------------------ CipherSyncEngine
\* src/unnamed/part_000.  Every action is one synchronous run: a public call
\* up to its return or its first await, or what runs when the last sleep of
\* a suspended call is over.  The sleeps in between only log.  Of status the
\* fields lastSync and avgLatency, which hold clock readings, are left out;
\* of a metrics element only proofIntegrity is kept.

\* successRate, a float in the source, kept as the exact fraction num/den.
Rate(num, den) == [num |-> num, den |-> den]

\* syncAccuracy = randomFloat(98.5, 99.99), in hundredths of a percent.
SyncAccuracies == {9850, 9950}

\* totalLatency in ms: the sleeps of a cycle add up to 1850 ms at least.
TotalLatencies == {1850, 6500}

\* calculateHealth(accuracy, latency, integrity), accuracy in hundredths.
calculateHealth(accuracy, latency, integrity) ==
    IF ~integrity THEN "Critical"
    ELSE IF accuracy >= 9900 /\ latency < 500 THEN "Optimal"
    ELSE IF accuracy >= 9800 /\ latency < 1000 THEN "Stable"
    ELSE IF accuracy >= 9500 THEN "Degraded"
    ELSE "Critical"

\* The status the constructor assigns.
NewStatus ==
    [engine          |-> "Initializing",
     aiBridge        |-> "Disconnected",
     proofs          |-> "Unverified",
     health          |-> "Degraded",
     cyclesCompleted |-> 0,
     successRate     |-> Rate(0, 1)]

\* The status the body of initialize assigns.
ReadyStatus ==
    [engine          |-> "Ready",
     aiBridge        |-> "Synced",
     proofs          |-> "Valid",
     health          |-> "Optimal",
     cyclesCompleted |-> 0,
     successRate     |-> Rate(100, 1)]

NoEngineCall ==
    [op |-> "new", initialized |-> FALSE, before |-> NewStatus, returned |-> NewStatus]

\* new CipherSyncEngine(): the field initialisers and the constructor.
NewEngine ==
    /\ engineStatus = NewStatus
    /\ isInitialized = FALSE
    /\ cyclesCompleted = 0
    /\ metrics = <<>>
    /\ initRuns = 0
    /\ cycleInits = 0
    /\ cycleRuns = 0
    /\ resets = 0
    /\ engineCall = NoEngineCall

\* The bodies of initialize started so far.
InitsStarted == resets + initRuns + cycleInits

\* The calls of syncCycle made so far.
CyclesStarted == Len(metrics) + cycleRuns + cycleInits

\* public async initialize(), up to its return on an initialised engine or
\* to its first await.
InitializeCall ==
    /\ isInitialized \/ InitsStarted < MaxInitCalls
    /\ initRuns' = IF isInitialized THEN initRuns ELSE initRuns + 1
    /\ engineCall' = [NoEngineCall EXCEPT !.op = "initialize",
                                          !.initialized = isInitialized,
                                          !.before = engineStatus]
    /\ UNCHANGED <<engineStatus, isInitialized, cyclesCompleted, metrics,
                   cycleInits, cycleRuns, resets>>
    /\ UNCHANGED auditVars

\* The last sleep of an initialize() is over: lines 172-187.
InitializeDone ==
    /\ initRuns > 0
    /\ engineStatus' = ReadyStatus
    /\ isInitialized' = TRUE
    /\ resets' = resets + 1
    /\ initRuns' = initRuns - 1
    /\ engineCall' = [NoEngineCall EXCEPT !.op = "initialized",
                                          !.initialized = isInitialized,
                                          !.before = engineStatus]
    /\ UNCHANGED <<cyclesCompleted, metrics, cycleInits, cycleRuns>>
    /\ UNCHANGED auditVars

\* public async syncCycle(taskLabel), up to its first await: inside the
\* initialize() it calls on an engine not initialised, or at line 205.
SyncCycleCall ==
    /\ CyclesStarted < MaxCycleCalls
    /\ isInitialized \/ InitsStarted < MaxInitCalls
    /\ IF isInitialized
       THEN /\ engineStatus' = [engineStatus EXCEPT !.engine = "Syncing"]
            /\ cycleRuns' = cycleRuns + 1
            /\ UNCHANGED cycleInits
       ELSE /\ cycleInits' = cycleInits + 1
            /\ UNCHANGED <<engineStatus, cycleRuns>>
    /\ engineCall' = [NoEngineCall EXCEPT !.op = "syncCycle",
                                          !.initialized = isInitialized,
                                          !.before = engineStatus]
    /\ UNCHANGED <<isInitialized, cyclesCompleted, metrics, initRuns, resets>>
    /\ UNCHANGED auditVars

\* The initialize() a syncCycle awaits ends (lines 172-187), and the
\* syncCycle goes on to its own first sleep (lines 195-205).
SyncCycleInitDone ==
    /\ cycleInits > 0
    /\ engineStatus' = [ReadyStatus EXCEPT !.engine = "Syncing"]
    /\ isInitialized' = TRUE
    /\ resets' = resets + 1
    /\ cycleInits' = cycleInits - 1
    /\ cycleRuns' = cycleRuns + 1
    /\ engineCall' = [NoEngineCall EXCEPT !.op = "initialized",
                                          !.initialized = isInitialized,
                                          !.before = engineStatus]
    /\ UNCHANGED <<cyclesCompleted, metrics, initRuns>>
    /\ UNCHANGED auditVars

\* The last sleep of a syncCycle is over: lines 242-280.
SyncCycleDone(proofIntegrity, syncAccuracy, totalLatency) ==
    /\ cycleRuns > 0
    /\ LET pushed == Append(metrics, [proofIntegrity |-> proofIntegrity])
           good == Cardinality({i \in DOMAIN pushed : pushed[i].proofIntegrity})
       IN  /\ metrics' = pushed
           /\ cyclesCompleted' = cyclesCompleted + 1
           /\ engineStatus' =
                 [engine          |-> "Ready",
                  aiBridge        |-> IF proofIntegrity THEN "Synced" ELSE "Desynced",
                  proofs          |-> IF proofIntegrity THEN "Valid" ELSE "Invalid",
                  health          |-> calculateHealth(syncAccuracy, totalLatency, proofIntegrity),
                  cyclesCompleted |-> cyclesCompleted + 1,
                  successRate     |-> Rate(good * 100, Len(pushed))]
    /\ cycleRuns' = cycleRuns - 1
    /\ engineCall' = [NoEngineCall EXCEPT !.op = "cycleDone",
                                          !.initialized = isInitialized,
                                          !.before = engineStatus]
    /\ UNCHANGED <<isInitialized, initRuns, cycleInits, resets>>
    /\ UNCHANGED auditVars

\* public getStatus(): a copy of status.
GetStatusCall ==
    /\ engineCall' = [NoEngineCall EXCEPT !.op = "getStatus",
                                          !.initialized = isInitialized,
                                          !.before = engineStatus,
                                          !.returned = engineStatus]
    /\ UNCHANGED <<engineStatus, isInitialized, cyclesCompleted, metrics,
                   initRuns, cycleInits, cycleRuns, resets>>
    /\ UNCHANGED auditVars

\* public emergencyShutdown(): three fields of status are assigned; the
\* timer it sets only logs.
EmergencyShutdownCall ==
    /\ engineStatus' = [engineStatus EXCEPT !.engine = "Error",
                                            !.health = "Critical",
                                            !.aiBridge = "Disconnected"]
    /\ engineCall' = [NoEngineCall EXCEPT !.op = "emergencyShutdown",
                                          !.initialized = isInitialized,
                                          !.before = engineStatus]
    /\ UNCHANGED <<isInitialized, cyclesCompleted, metrics,
                   initRuns, cycleInits, cycleRuns, resets>>
    /\ UNCHANGED auditVars

\* ------------------------------------------------------- specifications
\* The four events of the specification's example (section 8).
ExampleEvents ==
    << <<"system", NoMeta>>,
       <<"proof", Meta("absent", "high")>>,
       <<"inference", Meta("high", "absent")>>,
       <<"verification", NoMeta>> >>

\* Spec: the recorder under every interleaving of its public calls and of the
\* export's continuation.  Entries differ by kind and message; the status
\* drawn is always the same one.
SpecEvents == {ExampleEvents[1], ExampleEvents[2]}

SpecStatuses == {"Recorded"}

SpecRnds == [1..MaxDraws -> SpecStatuses]

Init == Construct(1..MaxEntries, SpecStatuses) /\ NewEngine

Next ==
    \/ \E e \in SpecEvents, rnd \in SpecRnds : RecordEventCall(MaxAppends, e[1], e[2], rnd)
    \/ \E limit \in Limits, rnd \in SpecRnds : GetAuditTrailCall(MaxAppends, limit, rnd)
    \/ GetStatsCall
    \/ \E rnd \in SpecRnds : ExportAuditLogCall(MaxAppends, rnd)
    \/ \E ok \in BOOLEAN, rnd \in SpecRnds : ExportResume(ok, rnd)
    \/ Tick

Spec == Init /\ [][Next]_vars

\* SpecRisk: one recorder and the calls of recordEvent with every category
\* (one outside the enumeration included), every meta and every status.
RiskCategories == Categories \cup {UnknownCategory}

AllRnds == [1..2 -> RandomStatuses]

InitRisk == Construct(1..MaxEntries, RandomStatuses) /\ NewEngine

NextRisk ==
    \E type \in RiskCategories, meta \in AllMetas, rnd \in AllRnds :
        RecordEventCall(RiskAppends, type, meta, rnd)

SpecRisk == InitRisk /\ [][NextRisk]_vars

\* SpecStats: appends of the four example events with every status, the
\* clock advancing in between, and getStats.
ExampleEventSet == {ExampleEvents[i] : i \in DOMAIN ExampleEvents}

NextStats ==
    \/ \E e \in ExampleEventSet, rnd \in AllRnds :
          RecordEventCall(StatsAppends, e[1], e[2], rnd)
    \/ GetStatsCall
    \/ Tick

SpecStats == InitRisk /\ [][NextStats]_vars

\* SpecExample: a recorder with room for the bootstrap entry and the four
\* example events, and getStats.
ExampleRoom == Len(ExampleEvents) + 1

InitExample == Construct({ExampleRoom}, RandomStatuses) /\ NewEngine

NextExample ==
    \/ \E e \in ExampleEventSet, rnd \in AllRnds :
          RecordEventCall(ExampleRoom, e[1], e[2], rnd)
    \/ GetStatsCall

SpecExample == InitExample /\ [][NextExample]_vars

\* SpecAuto: a recorder whose maxEntries is ExportEvery, the smallest size
\* that, like the configured 10000, is a multiple of it: the log reaches a
\* length at which recordEvent starts an auto-export, and stays there once
\* it is full.
AutoLimits == {NoLimit, Limit(1)}

InitAuto == Construct({ExportEvery}, SpecStatuses) /\ NewEngine

NextAuto ==
    \/ \E rnd \in SpecRnds :
          RecordEventCall(AutoAppends, ExampleEvents[2][1], ExampleEvents[2][2], rnd)
    \/ \E limit \in AutoLimits, rnd \in SpecRnds : GetAuditTrailCall(AutoAppends, limit, rnd)
    \/ \E rnd \in SpecRnds : ExportAuditLogCall(AutoAppends, rnd)
    \/ \E ok \in BOOLEAN, rnd \in SpecRnds : ExportResume(ok, rnd)

SpecAuto == InitAuto /\ [][NextAuto]_vars

\* SpecStatsOf: getStats applied to every array of consecutive entries of the
\* history, the array without elements included.
SubLogs == {SubSeq(appended, i, j) : i \in 1..Len(appended) + 1, j \in 0..Len(appended)}

NextStatsOf ==
    \/ \E e \in ExampleEventSet, rnd \in AllRnds :
          RecordEventCall(StatsAppends, e[1], e[2], rnd)
    \/ \E log \in SubLogs : GetStatsOf(log)

SpecStatsOf == InitRisk /\ [][NextStatsOf]_vars

\* SpecFair: callers record events and start exports, and the timer of a
\* sleeping export fires: setTimeout's callback runs once the delay is over,
\* whatever else is called meanwhile.
TimerFires == \E ok \in BOOLEAN, rnd \in SpecRnds : ExportResume(ok, rnd)

NextFair ==
    \/ \E rnd \in SpecRnds :
          RecordEventCall(MaxAppends, ExampleEvents[2][1], ExampleEvents[2][2], rnd)
    \/ \E rnd \in SpecRnds : ExportAuditLogCall(MaxAppends, rnd)
    \/ TimerFires

SpecFair == Init /\ [][NextFair]_vars /\ WF_vars(TimerFires)

\* SpecSync: one engine under every interleaving of its public calls and of
\* the continuations of its suspended calls; the recorder is constructed and
\* left alone.
InitSync == Construct({1}, SpecStatuses) /\ NewEngine

NextSync ==
    \/ InitializeCall
    \/ InitializeDone
    \/ SyncCycleCall
    \/ SyncCycleInitDone
    \/ \E ok \in BOOLEAN, acc \in SyncAccuracies, lat \in TotalLatencies :
          SyncCycleDone(ok, acc, lat)
    \/ GetStatusCall
    \/ EmergencyShutdownCall

SpecSync == InitSync /\ [][NextSync]_vars

\* SpecSession: the interleavings of Spec for recorders of either session id.
InitSession == ConstructWith(TwoSessionIds, 1..MaxEntries, SpecStatuses) /\ NewEngine

SpecSession == InitSession /\ [][Next]_vars

\* ---------------------------------------------------------------- claims
\* The last k elements of s, written without Slice.
LastN(s, k) == [i \in 1..k |-> s[Len(s) - k + i]]

\* C1: in every reachable state the audit log holds at most maxEntries
\* entries.
C1_LogBounded == Len(auditLog) <= maxEntries

\* C1 witness: more entries were appended than the log may hold, and the log
\* is full.
C1_Witness ==
    /\ maxEntries >= 2
    /\ Len(appended) > maxEntries
    /\ Len(auditLog) = maxEntries

\* C2: the log is the most recent min(n, maxEntries) of the n entries
\* appended so far, in append order.
C2_LogIsNewestSuffix ==
    LET n == Len(appended)
        k == Min(n, maxEntries)
    IN  /\ Len(auditLog) = k
        /\ \A i \in 1..k : auditLog[i] = appended[n - k + i]

\* C2 witness: maxEntries = 3 and four appends A, B, C, D leave [B, C, D],
\* A differing from B.
C2_Witness ==
    /\ maxEntries = 3
    /\ Len(appended) = 4
    /\ appended[1] # appended[2]
    /\ auditLog = <<appended[2], appended[3], appended[4]>>

\* C3 (as claimed): getAuditTrail is read-only, the audit log after the call
\* is the audit log before it.
C3_QueryLeavesLogUnchanged ==
    lastCall.op = "getAuditTrail" => auditLog = lastCall.before

\* C3 (amended): getAuditTrail changes no entry of the log and removes none
\* but from the front by retention; it does append: one system entry that
\* records the query, followed by the export's start entry when that append
\* started an auto-export.
C3_QueryAppendsItsRecord ==
    lastCall.op = "getAuditTrail" =>
        \E added \in 1..2 :
            LET n == Len(appended)
                new == [i \in 1..added |-> appended[n - added + i]]
                all == lastCall.before \o new
            IN  /\ n >= added
                /\ auditLog = LastN(all, Min(Len(all), maxEntries))
                /\ new[1].type = "system" /\ new[1].message = "queried"
                /\ added = 2 =>
                      new[2].type = "system" /\ new[2].message = "export-start"

\* C3 witness: a query on a full log whose own entry started an auto-export;
\* the two oldest entries were evicted for the query's entry and the
\* export's start entry.
C3_Witness ==
    /\ lastCall.op = "getAuditTrail"
    /\ Len(lastCall.before) = maxEntries
    /\ lastCall.autoCalls >= 1
    /\ auditLog = LastN(lastCall.before, maxEntries - 2)
                     \o <<appended[Len(appended) - 1], appended[Len(appended)]>>
    /\ appended[Len(appended) - 1].message = "queried"
    /\ appended[Len(appended)].message = "export-start"

\* C4: getAuditTrail(k) with k >= 1 returns the last min(k, n) entries of the
\* log it was called on, in insertion order, and getAuditTrail() returns all n.
C4_QueryReturnsSuffix ==
    (lastCall.op = "getAuditTrail" /\ (lastCall.limit.given => lastCall.limit.value >= 1)) =>
        LET log == lastCall.before
            n == Len(log)
            k == IF lastCall.limit.given THEN Min(lastCall.limit.value, n) ELSE n
        IN  /\ Len(lastCall.records) = k
            /\ \A i \in 1..k : lastCall.records[i] = log[n - k + i]

\* C4 witness: getAuditTrail(2) on a log of three entries returned the last
\* two, which differ.
C4_Witness ==
    /\ lastCall.op = "getAuditTrail"
    /\ lastCall.limit = Limit(2)
    /\ Len(lastCall.before) = 3
    /\ lastCall.records = <<lastCall.before[2], lastCall.before[3]>>
    /\ lastCall.before[2] # lastCall.before[3]

\* C5: getAuditTrail(0) returns an empty sequence, whatever the log contains.
C5_ZeroLimitReturnsNothing ==
    (lastCall.op = "getAuditTrail" /\ lastCall.limit = Limit(0)) =>
        lastCall.records = <<>>

\* C6: recordEvent with a category outside the enumeration is rejected before
\* any mutation: no entry is appended and the log is unchanged.
C6_UnknownCategoryRejected ==
    (lastCall.op = "recordEvent" /\ lastCall.type \notin Categories) =>
        /\ auditLog = lastCall.before
        /\ \A i \in DOMAIN appended : appended[i].type \in Categories

\* The risk rule as the specification states it (section 3).
HasHigh(meta, key) == meta.present /\ meta[key] = "high"

RiskRule(category, meta) ==
    CASE category = "system"       -> "LOW"
      [] category = "verification" -> "MEDIUM"
      [] category = "inference"    -> IF HasHigh(meta, "sensitivity") THEN "HIGH" ELSE "MEDIUM"
      [] category = "proof"        -> IF HasHigh(meta, "complexity") THEN "HIGH" ELSE "MEDIUM"
      [] OTHER                     -> "LOW"

\* C8: the risk level of every appended entry is the rule's value for its
\* category and metadata, whatever was appended before it and whatever the
\* log holds; two entries of equal category and metadata have equal levels.
C8_RiskFollowsRule ==
    /\ \A i \in DOMAIN appended :
          appended[i].riskLevel = RiskRule(appended[i].type, appended[i].meta)
    /\ \A i, j \in DOMAIN appended :
          (appended[i].type = appended[j].type /\ appended[i].meta = appended[j].meta)
              => appended[i].riskLevel = appended[j].riskLevel

\* C8 witness: an inference event whose metadata has sensitivity "high" and
\* no complexity "high" was appended after the bootstrap entry and is HIGH.
C8_Witness ==
    /\ lastCall.op = "recordEvent"
    /\ Len(appended) >= 2
    /\ LET e == appended[Len(appended)]
       IN  /\ e.type = "inference"
           /\ e.meta = Meta("high", "low")
           /\ e.riskLevel = "HIGH"

\* The sum of the values of a map.
RECURSIVE SumOf(_)
SumOf(f) ==
    IF DOMAIN f = {} THEN 0
    ELSE LET k == CHOOSE x \in DOMAIN f : TRUE
         IN  f[k] + SumOf([x \in DOMAIN f \ {k} |-> f[x]])

\* The map that counts the entries of log by field.
CountBy(log, field) ==
    [v \in {log[i][field] : i \in DOMAIN log} |->
        Cardinality({i \in DOMAIN log : log[i][field] = v})]

\* C7: getStats is computed from the current log: totalRecords is the number
\* of entries not evicted, each map counts the current entries by value and
\* sums to totalRecords, firstRecord and lastRecord are the timestamps of the
\* first and the last current entry.
C7_StatsOfCurrentLog ==
    lastCall.op = "getStats" =>
        LET st == lastCall.stats
            n == Len(auditLog)
        IN  /\ st.totalRecords = n
            /\ n = Min(Len(appended), maxEntries)
            /\ st.byType = CountBy(auditLog, "type")
            /\ st.byStatus = CountBy(auditLog, "status")
            /\ st.byRiskLevel = CountBy(auditLog, "riskLevel")
            /\ SumOf(st.byType) = st.totalRecords
            /\ SumOf(st.byStatus) = st.totalRecords
            /\ SumOf(st.byRiskLevel) = st.totalRecords
            /\ n >= 1 => /\ st.firstRecord = Some(auditLog[1].timestamp)
                         /\ st.lastRecord = Some(auditLog[n].timestamp)

\* C7 witness: getStats after an eviction, on a log of two entries of
\* different types, statuses and timestamps.
C7_Witness ==
    /\ lastCall.op = "getStats"
    /\ maxEntries = 2
    /\ Len(appended) = 3
    /\ Len(auditLog) = 2
    /\ auditLog[1].type # auditLog[2].type
    /\ auditLog[1].status # auditLog[2].status
    /\ auditLog[1].timestamp # auditLog[2].timestamp
    /\ lastCall.stats.totalRecords = 2

\* The example of section 8 has run: the recorder was constructed, the four
\* example events were appended in order, nothing else was, nothing was
\* evicted, and getStats was called.
ExampleRan ==
    /\ lastCall.op = "getStats"
    /\ Len(appended) = Len(ExampleEvents) + 1
    /\ auditLog = appended
    /\ \A i \in DOMAIN ExampleEvents :
          /\ appended[i + 1].type = ExampleEvents[i][1]
          /\ appended[i + 1].meta = ExampleEvents[i][2]

ExampleLevels == <<"LOW", "HIGH", "HIGH", "MEDIUM">>

\* C9 (as claimed): on a new recorder the four example events get the levels
\* low, high, high, medium in that order and byRiskLevel is then
\* {low: 1, high: 2, medium: 1}.
C9_ExampleCountsOneLow ==
    ExampleRan =>
        /\ \A i \in DOMAIN ExampleEvents : appended[i + 1].riskLevel = ExampleLevels[i]
        /\ lastCall.stats.byRiskLevel = ("LOW" :> 1) @@ ("HIGH" :> 2) @@ ("MEDIUM" :> 1)

\* C9 (amended): the four example events get the levels low, high, high,
\* medium in that order, and byRiskLevel is then {low: 2, high: 2, medium: 1}:
\* the constructor's bootstrap entry is a system entry of level low and is
\* counted with them.
C9_ExampleCountsBootstrap ==
    ExampleRan =>
        /\ \A i \in DOMAIN ExampleEvents : appended[i + 1].riskLevel = ExampleLevels[i]
        /\ appended[1].type = "system" /\ appended[1].riskLevel = "LOW"
        /\ lastCall.stats.byRiskLevel = ("LOW" :> 2) @@ ("HIGH" :> 2) @@ ("MEDIUM" :> 1)

\* C9 witness: the example has run and getStats counted five entries.
C9_Witness ==
    /\ ExampleRan
    /\ lastCall.stats.totalRecords = 5
    /\ appended[3].riskLevel = "HIGH"

\* The entries at positions i < j < k of the history carry these messages.
InOrder(m1, m2, m3) ==
    \E i, j, k \in DOMAIN appended :
        /\ i < j /\ j < k
        /\ appended[i].message = m1
        /\ appended[j].message = m2
        /\ appended[k].message = m3

\* C10: under every interleaving of the callers' recordEvent calls with the
\* appends of getAuditTrail and of an export in flight, the log is never
\* longer than maxEntries, and the entry appended as the i-th of n is in the
\* log, at its place, unless at least maxEntries entries were appended after it.
C10_NoAppendLost ==
    LET n == Len(appended)
        evicted == n - Len(auditLog)
    IN  /\ Len(auditLog) <= maxEntries
        /\ evicted >= 0
        /\ \A i \in 1..n :
              n - i < maxEntries => (i > evicted /\ auditLog[i - evicted] = appended[i])

\* C10 witness: an export started, a caller's event was appended while it
\* slept, the export then completed, and the bound has evicted entries.
C10_Witness ==
    /\ lastCall.op \in {"exported", "exportFailed"}
    /\ InOrder("export-start", "event", "export-ok")
    /\ Len(appended) > maxEntries
    /\ maxEntries >= 2

\* obs is what retention leaves of the history h: its last
\* min(Len(h), maxEntries) entries.
RetainedOf(obs, h) ==
    LET k == Min(Len(h), maxEntries)
    IN  /\ Len(obs) = k
        /\ \A i \in 1..k : obs[i] = h[Len(h) - k + i]

\* The history without its last j entries.
HistoryBefore(j) == SubSeq(appended, 1, Len(appended) - j)

\* C11: what getAuditTrail returns, what getStats counts and what the export
\* serialises is never a log caught between a push and its eviction: each is
\* at most maxEntries long and is exactly what retention leaves of the
\* entries appended up to the moment it was read.
C11_ObserversSeeRetainedLog ==
    /\ lastCall.op = "getAuditTrail" =>
          /\ Len(lastCall.records) <= maxEntries
          /\ ~Truthy(lastCall.limit) =>
                \E j \in 1..2 : /\ j <= Len(appended)
                                /\ RetainedOf(lastCall.records, HistoryBefore(j))
    /\ lastCall.op = "getStats" =>
          /\ lastCall.stats.totalRecords = Min(Len(appended), maxEntries)
          /\ SumOf(lastCall.stats.byType) = Min(Len(appended), maxEntries)
    /\ lastCall.op = "exported" =>
          /\ lastCall.file[1].totalRecords <= maxEntries
          /\ RetainedOf(lastCall.file[1].auditTrail, HistoryBefore(1))

\* C11 witness: an export serialised a full log after entries had been
\* evicted from it.
C11_Witness ==
    /\ lastCall.op = "exported"
    /\ maxEntries >= 2
    /\ Len(lastCall.file[1].auditTrail) = maxEntries
    /\ Len(appended) > maxEntries + 1

\* C12: the file an export writes holds the log as it stands at one instant,
\* the moment the export resumes after its delay: entries recorded during
\* the delay are in it, and metadata.totalRecords is the number of entries of
\* the written auditTrail.
C12_ExportIsSnapshot ==
    lastCall.op = "exported" =>
        LET data == lastCall.file[1]
        IN  /\ data.auditTrail = lastCall.before
            /\ data.totalRecords = Len(data.auditTrail)
            /\ data.totalRecords = Min(Len(appended) - 1, maxEntries)

\* C12 witness: the written auditTrail holds the export's start entry and,
\* after it, an event recorded while the export slept.
C12_Witness ==
    /\ lastCall.op = "exported"
    /\ Len(lastCall.file) = 1
    /\ \E i, j \in DOMAIN lastCall.file[1].auditTrail :
          /\ i < j
          /\ lastCall.file[1].auditTrail[i].message = "export-start"
          /\ lastCall.file[1].auditTrail[j].message = "event"
    /\ lastCall.file[1].totalRecords = 3

\* C13: when the write of an export fails, the log after the failure has been
\* handled is the log before it, less the entries the retention bound takes
\* from its front, followed by the one entry that records the failure: the
\* entries kept are unmodified and in their order.
C13_FailedExportKeepsLog ==
    lastCall.op = "exportFailed" =>
        LET old == lastCall.before
            kept == Len(auditLog) - 1
        IN  /\ kept = Min(Len(old), maxEntries - 1)
            /\ \A i \in 1..kept : auditLog[i] = old[Len(old) - kept + i]
            /\ auditLog[kept + 1].message = "export-failed"

\* C13 witness: the write failed in a full log that held an event recorded
\* after the export had started; the front entry was evicted and the
\* event is still there.
C13_Witness ==
    /\ lastCall.op = "exportFailed"
    /\ maxEntries = 3
    /\ Len(lastCall.before) = 3
    /\ lastCall.before[2].message = "export-start"
    /\ lastCall.before[3].message = "event"
    /\ auditLog[1] = lastCall.before[2]
    /\ auditLog[2] = lastCall.before[3]

\* The steps that run recordEvent for exactly one entry of their own, the
\* entry at place OwnPlace of the history (an export's start entry may
\* follow it in the same step).
RecordingOps == {"recordEvent", "getAuditTrail", "exported", "exportFailed"}

OwnPlace ==
    LET n == Len(appended)
    IN  IF lastCall.op \in {"recordEvent", "getAuditTrail"}
           /\ appended[n].message = "export-start"
        THEN n - 1
        ELSE n

\* C14 (as claimed): with autoExport enabled, a recordEvent attempts an
\* export if and only if the number of entries appended so far, its own
\* included, is a multiple of 10, also once the log is full.
C14_AutoExportEveryTenAppends ==
    lastCall.op \in RecordingOps =>
        (lastCall.autoCalls >= 1 <=> OwnPlace % ExportEvery = 0)

\* C15: every entry ever appended, by whichever operation, carries the
\* session id of the bootstrap entry, the id the recorder was given at
\* construction, and the recorder's session id is still that id.
C15_OneSessionId ==
    /\ Len(appended) >= 1
    /\ sessionId = appended[1].sessionId
    /\ \A i \in DOMAIN appended : appended[i].sessionId = sessionId
    /\ \A i \in DOMAIN auditLog : auditLog[i].sessionId = sessionId

\* C15 witness: the recorder of the second session id holds entries from a
\* caller, from a query and from a completed export, the bootstrap entry
\* evicted.
C15_Witness ==
    /\ sessionId = "SESS-B"
    /\ appended[1].message = "initialized"
    /\ Len(appended) > maxEntries
    /\ \E i, j, k \in DOMAIN auditLog :
          /\ auditLog[i].message = "event"
          /\ auditLog[j].message = "queried"
          /\ auditLog[k].message = "export-ok"

\* C16: right after the constructor returns, one entry has been appended and
\* the log holds exactly it; its category is system and its risk level LOW;
\* no export has been started.
C16_OneBootstrapEntry ==
    lastCall.op = "new" =>
        /\ Len(appended) = 1
        /\ auditLog = appended
        /\ auditLog[1].type = "system"
        /\ auditLog[1].riskLevel = "LOW"
        /\ ~isExporting
        /\ sleeping = 0

\* C16 witness: a recorder just constructed, with room for one entry only,
\* holding the bootstrap entry.
C16_Witness ==
    /\ lastCall.op = "new"
    /\ maxEntries = 1
    /\ Len(auditLog) = 1
    /\ auditLog[1].message = "initialized"

\* C17: no step changes, reorders or removes an entry of the log other than
\* by retention: the log after a step is the log before it less `evicted`
\* entries at its front, followed by the entries the step appended, and
\* entries leave the front only when the log is full.
C17_EntriesImmutable ==
    [][ LET pushed == Len(appended') - Len(appended)
            evicted == Len(auditLog) + pushed - Len(auditLog')
            kept == Len(auditLog) - Min(evicted, Len(auditLog))
        IN  /\ pushed >= 0
            /\ evicted >= 0
            /\ \A i \in 1..kept : auditLog'[i] = auditLog[i + evicted]
            /\ \A i \in 1..Min(pushed, Len(auditLog')) :
                  auditLog'[Len(auditLog') - i + 1] = appended'[Len(appended') - i + 1]
            /\ evicted > 0 => Len(auditLog') = maxEntries
      ]_vars

\* C17 witness: a caller's recordEvent on a full log of two different
\* entries, an export in flight: the first entry left, the second moved to
\* the front unchanged.
C17_Witness ==
    /\ lastCall.op = "recordEvent"
    /\ isExporting
    /\ maxEntries = 2
    /\ Len(lastCall.before) = 2
    /\ lastCall.before[1] # lastCall.before[2]
    /\ auditLog[1] = lastCall.before[2]

\* C18: getStats computed on a log without entries returns totalRecords 0,
\* byType, byStatus and byRiskLevel with no key, and null for firstRecord and
\* for lastRecord.
C18_StatsOfEmptyLog ==
    (lastCall.op = "getStatsOf" /\ Len(lastCall.before) = 0) =>
        /\ lastCall.stats.totalRecords = 0
        /\ DOMAIN lastCall.stats.byType = {}
        /\ DOMAIN lastCall.stats.byStatus = {}
        /\ DOMAIN lastCall.stats.byRiskLevel = {}
        /\ lastCall.stats.firstRecord = Null
        /\ lastCall.stats.lastRecord = Null

\* C18 witness: getStats has been applied to the array without elements and
\* returned a count of 0.
C18_Witness ==
    /\ lastCall.op = "getStatsOf"
    /\ lastCall.before = <<>>
    /\ lastCall.stats.totalRecords = 0
    /\ Len(appended) = StatsAppends

\* C19: at most one export is between its start and its finally block, the
\* flag isExporting being set exactly while one is; and a call of
\* exportAuditLog made while the flag is set appends no entry, writes no
\* file, leaves the log and the flag as they are and suspends nothing.
C19_OneExportAtATime ==
    /\ [](sleeping <= 1 /\ (isExporting <=> sleeping = 1))
    /\ [][ (lastCall'.op = "exportAuditLog" /\ isExporting) =>
              /\ appended' = appended
              /\ auditLog' = auditLog
              /\ isExporting'
              /\ sleeping' = sleeping
              /\ lastCall'.file = <<>>
         ]_vars

\* C19 witness: exportAuditLog was called while an export was asleep, after
\* a caller's event recorded during that sleep; that event is still the last
\* entry of the history and the flag is still set.
C19_Witness ==
    /\ lastCall.op = "exportAuditLog"
    /\ isExporting
    /\ sleeping = 1
    /\ \E i \in DOMAIN appended :
          /\ appended[i].message = "export-start"
          /\ i + 1 = Len(appended)
          /\ appended[i + 1].message = "event"
    /\ auditLog = lastCall.before

\* C20: every run of recordEvent returns, and the chain recordEvent ->
\* autoExport -> exportAuditLog -> recordEvent is at most two recordEvent
\* deep: one synchronous run appends at most two entries, one for each level
\* of recordEvent, and calls autoExport at most twice, the second call
\* returning at the isExporting guard.
C20_NestingAtMostTwo ==
    [][ /\ Len(appended') - Len(appended) <= 2
        /\ lastCall'.autoCalls <= 2
        /\ Len(appended') - Len(appended) = 2 => (isExporting' /\ sleeping' = 1)
      ]_vars

\* C20 witness: a caller's recordEvent on a full log, whose length is a
\* multiple of 10 after every append: the event and the export's start entry
\* were appended, autoExport was called at both levels, and the run returned.
C20_Witness ==
    /\ lastCall.op = "recordEvent"
    /\ lastCall.autoCalls = 2
    /\ Len(lastCall.before) = maxEntries
    /\ Len(auditLog) = maxEntries
    /\ auditLog[maxEntries - 1].message = "event"
    /\ auditLog[maxEntries].message = "export-start"

\* C21: whenever isExporting is set, it is cleared again later, whether the
\* write of the export succeeds or fails, provided the timer of the export's
\* delay fires.
C21_ExportFlagReleased == isExporting ~> ~isExporting

\* C21 witness: an export started, its write failed, and the flag is clear
\* with no export left asleep.
C21_Witness ==
    /\ lastCall.op = "exportFailed"
    /\ ~isExporting
    /\ sleeping = 0
    /\ Len(appended) >= 3
    /\ appended[Len(appended) - 1].message = "export-start"
    /\ appended[Len(appended)].message = "export-failed"

\* C22: in every state of a constructed recorder the log holds at least one
\* entry, so getStats computed on it has totalRecords >= 1 and neither
\* firstRecord nor lastRecord null, and so has every result getStats returned.
C22_LogNeverEmpty ==
    /\ Len(auditLog) >= 1
    /\ getStats(auditLog).totalRecords >= 1
    /\ getStats(auditLog).firstRecord # Null
    /\ getStats(auditLog).lastRecord # Null
    /\ lastCall.op = "getStats" =>
          /\ lastCall.stats.totalRecords >= 1
          /\ lastCall.stats.firstRecord # Null
          /\ lastCall.stats.lastRecord # Null

\* C22 witness: getStats on a recorder with room for one entry, after
\* evictions: one record, first and last not null.
C22_Witness ==
    /\ lastCall.op = "getStats"
    /\ maxEntries = 1
    /\ Len(appended) >= 3
    /\ lastCall.stats.totalRecords = 1
    /\ lastCall.stats.firstRecord = lastCall.stats.lastRecord
    /\ Len(lastCall.stats.firstRecord) = 1

\* C23 (as claimed): the body of initialize that resets status to Ready with
\* cyclesCompleted 0 and successRate 100 has run at most once, whatever calls
\* of initialize and syncCycle overlap, and a call of initialize on an
\* initialised engine leaves status as it was.
C23_InitialisedOnce ==
    /\ resets <= 1
    /\ (engineCall.op = "initialize" /\ engineCall.initialized) =>
          engineStatus = engineCall.before

\* C24 (as claimed): status.cyclesCompleted, and what getStatus returned,
\* is the number of cycles completed: the length of metrics and the value of
\* the counter cyclesCompleted.
C24_StatusCountsCycles ==
    /\ cyclesCompleted = Len(metrics)
    /\ engineStatus.cyclesCompleted = Len(metrics)
    /\ engineCall.op = "getStatus" => engineCall.returned.cyclesCompleted = Len(metrics)

====
